---- MODULE Spec2Model ----
(***************************************************************************)
(* LIRS cache (LIRSCache<K,V>): the LIRS stack S (lirs_stack_), the HIR    *)
(* resident stack Q (hir_stack_), the value list (cache_), the entry table *)
(* (map_) and the LIR counter, driven by the public calls get and put.     *)
(* The front of a std::list is index 1 of the sequence (top of a stack);   *)
(* the back is index Len (bottom).  A list iterator kept in an Entry is    *)
(* modelled by the key it points at; erasing through an iterator whose     *)
(* element is not in the list is undefined behaviour and raises ub.        *)
(***************************************************************************)
EXTENDS Integers, Sequences, FiniteSets, TLC

\* ---------------------------------------------------------------- bounds
MaxCapacity == 3
NumKeys == 3
\* calls main() is followed through after its Phase 2
MaxCalls == 3
\* keys a scan client puts
MaxScan == 7

Keys == 1..NumKeys
\* V is opaque to the cache: values are stored and returned, never compared or
\* inspected, so two distinct values are enough to tell an overwrite from a
\* stale value
Values == {1, 2}
Capacities == 0..MaxCapacity
\* hir_ratio in hundredths: 0.2 and 0.34 as main() passes them, 0.9 for an
\* hir_capacity above 1, and the rejected 0, 1, -0.1 and 1.5.  No product
\* capacity * ratio used here is within rounding distance of an integer it
\* does not equal, so the double arithmetic of the constructor is exact.
Ratios == {-10, 0, 20, 34, 90, 100, 150}

VARIABLES
  engine,         \* "ok" when the constructor returned, "invalid_argument" when it threw
  capacity_, hir_capacity_, lir_capacity_, lir_count_,
  cache_,         \* sequence of <<key, value>>, front first
  lirs_stack_,    \* S, top first
  hir_stack_,     \* Q, top first
  map_,           \* function: keys with an Entry -> Entry
  ub,             \* an erase through a dangling iterator has happened
  op,             \* the last public call: [name, key, value]; for the constructor
                  \* "LIRSCache", key is its capacity and value its hir_ratio (hundredths)
  ret,            \* what the last get returned: [present, value] (Spec, SpecHist)
  path,           \* the branch the last public call took (Spec, SpecHist)
  last_put,       \* history (SpecHist): key -> value of the most recent put (0: never put)
  inserted,       \* history (SpecHist): keys ever passed to put
  pc              \* where main() is: [phase, n, missed]; phase "client" when the
                  \* calls come from an arbitrary client instead of main()

state == <<capacity_, hir_capacity_, lir_capacity_, lir_count_, cache_,
           lirs_stack_, hir_stack_, map_, ub>>
vars == <<engine, capacity_, hir_capacity_, lir_capacity_, lir_count_, cache_,
          lirs_stack_, hir_stack_, map_, ub, op, ret, path, last_put, inserted, pc>>

\* ------------------------------------------------------- list primitives
Max(a, b) == IF a >= b THEN a ELSE b

push_front(s, x) == <<x>> \o s

back(s) == s[Len(s)]

pop_back(s) == SubSeq(s, 1, Len(s) - 1)

Contains(s, k) == \E i \in 1..Len(s) : s[i] = k

\* position of the element an iterator obtained from the last push_front(k) names
IterPos(s, k) == CHOOSE i \in 1..Len(s) : s[i] = k /\ \A j \in 1..(i - 1) : s[j] # k

\* std::list::erase(iterator)
erase(s, k) ==
  IF Contains(s, k)
    THEN SubSeq(s, 1, IterPos(s, k) - 1) \o SubSeq(s, IterPos(s, k) + 1, Len(s))
    ELSE s

CacheKeys(c) == {c[i][1] : i \in 1..Len(c)}

CacheHas(c, k) == \E i \in 1..Len(c) : c[i][1] = k

CachePos(c, k) == CHOOSE i \in 1..Len(c) : c[i][1] = k /\ \A j \in 1..(i - 1) : c[j][1] # k

\* cache.erase(entry.data_iter)
cache_erase(c, k) ==
  IF CacheHas(c, k)
    THEN SubSeq(c, 1, CachePos(c, k) - 1) \o SubSeq(c, CachePos(c, k) + 1, Len(c))
    ELSE c

\* entry.data_iter->second
cache_value(c, k) == c[CachePos(c, k)][2]

\* entry.data_iter->second = value
cache_assign(c, k, v) ==
  [i \in 1..Len(c) |-> IF CacheHas(c, k) /\ i = CachePos(c, k) THEN <<k, v>> ELSE c[i]]

\* ------------------------------------------------------------ entry table
Entry(lir, res, inS, inQ) ==
  [is_LIR |-> lir, is_resident |-> res, in_lirs_stack |-> inS, in_hir_stack |-> inQ]

\* a value-initialised Entry, as std::unordered_map::operator[] inserts
DefaultEntry == Entry(FALSE, FALSE, FALSE, FALSE)

map_set(m, k, e) == [x \in (DOMAIN m) \cup {k} |-> IF x = k THEN e ELSE m[x]]

map_erase(m, k) == [x \in (DOMAIN m) \ {k} |-> m[x]]

\* map[k]: inserts a default Entry when k has none
map_index(m, k) == IF k \in DOMAIN m THEN m ELSE map_set(m, k, DefaultEntry)

\* the mutable part of the object, as one record the private methods transform
Obj ==
  [cache |-> cache_, lirs_stack |-> lirs_stack_, hir_stack |-> hir_stack_,
   map |-> map_, lir_count |-> lir_count_, ub |-> ub]

\* ------------------------------------------------------ private methods
\* mutant: the victim's record is never deleted, also when it is not in S
evict_hir_resident_keeps_record(st) ==
  IF st.hir_stack = <<>> THEN st
  ELSE
    LET victim_key == back(st.hir_stack)
        m1 == map_index(st.map, victim_key)
        entry == [m1[victim_key] EXCEPT !.is_resident = FALSE, !.in_hir_stack = FALSE]
    IN [st EXCEPT
          !.hir_stack = pop_back(st.hir_stack),
          !.cache = cache_erase(st.cache, victim_key),
          !.ub = st.ub \/ ~CacheHas(st.cache, victim_key),
          !.map = map_set(m1, victim_key, entry)]
\* mutant: the victim's record is deleted also when the victim is still in S,
\* so no ghost is ever kept
evict_hir_resident_forgets_victim(st) ==
  IF st.hir_stack = <<>> THEN st
  ELSE
    LET victim_key == back(st.hir_stack)
        m1 == map_index(st.map, victim_key)
    IN [st EXCEPT
          !.hir_stack = pop_back(st.hir_stack),
          !.lirs_stack = erase(st.lirs_stack, victim_key),
          !.cache = cache_erase(st.cache, victim_key),
          !.ub = st.ub \/ ~CacheHas(st.cache, victim_key),
          !.map = map_erase(m1, victim_key)]

evict_hir_resident(st) ==
  IF st.hir_stack = <<>> THEN st
  ELSE
    LET victim_key == back(st.hir_stack)
        m1 == map_index(st.map, victim_key)
        entry == [m1[victim_key] EXCEPT !.is_resident = FALSE, !.in_hir_stack = FALSE]
    IN [st EXCEPT
          !.hir_stack = pop_back(st.hir_stack),
          !.cache = cache_erase(st.cache, victim_key),
          !.ub = st.ub \/ ~CacheHas(st.cache, victim_key),
          !.map = IF ~entry.in_lirs_stack THEN map_erase(m1, victim_key)
                  ELSE map_set(m1, victim_key, entry)]
\* mutant: pruning pops a ghost off S but never deletes its record
RECURSIVE stack_pruning_keeps_ghost_record(_)
stack_pruning_keeps_ghost_record(st) ==
  IF st.lirs_stack = <<>> THEN st
  ELSE
    LET bottom_key == back(st.lirs_stack)
        m1 == map_index(st.map, bottom_key)
        entry == m1[bottom_key]
    IN IF entry.is_LIR THEN [st EXCEPT !.map = m1]
       ELSE stack_pruning_keeps_ghost_record(
              [st EXCEPT
                 !.lirs_stack = pop_back(st.lirs_stack),
                 !.map = map_set(m1, bottom_key,
                                 [entry EXCEPT !.in_lirs_stack = FALSE])])

RECURSIVE stack_pruning(_)
stack_pruning(st) ==
  IF st.lirs_stack = <<>> THEN st
  ELSE
    LET bottom_key == back(st.lirs_stack)
        m1 == map_index(st.map, bottom_key)
        entry == m1[bottom_key]
    IN IF entry.is_LIR THEN [st EXCEPT !.map = m1]
       ELSE stack_pruning(
              [st EXCEPT
                 !.lirs_stack = pop_back(st.lirs_stack),
                 !.map = IF ~entry.is_resident THEN map_erase(m1, bottom_key)
                         ELSE map_set(m1, bottom_key,
                                      [entry EXCEPT !.in_lirs_stack = FALSE])])

\* mutant: the demoted key moves to Q but keeps is_LIR
demote_bottom_lir_keeps_lir_flag(st) ==
  IF st.lirs_stack = <<>> THEN st
  ELSE
    LET bottom_key == back(st.lirs_stack)
        m1 == map_index(st.map, bottom_key)
        entry == m1[bottom_key]
    IN IF ~entry.is_LIR THEN [st EXCEPT !.map = m1]
       ELSE [st EXCEPT
               !.lir_count = st.lir_count - 1,
               !.lirs_stack = pop_back(st.lirs_stack),
               !.hir_stack = push_front(st.hir_stack, bottom_key),
               !.map = map_set(m1, bottom_key,
                               [entry EXCEPT !.in_lirs_stack = FALSE,
                                             !.in_hir_stack = TRUE])]
demote_bottom_lir(st) ==
  IF st.lirs_stack = <<>> THEN st
  ELSE
    LET bottom_key == back(st.lirs_stack)
        m1 == map_index(st.map, bottom_key)
        entry == m1[bottom_key]
    IN IF ~entry.is_LIR THEN [st EXCEPT !.map = m1]
       ELSE [st EXCEPT
               !.lir_count = st.lir_count - 1,
               !.lirs_stack = pop_back(st.lirs_stack),
               !.hir_stack = push_front(st.hir_stack, bottom_key),
               !.map = map_set(m1, bottom_key,
                               [entry EXCEPT !.is_LIR = FALSE,
                                             !.in_lirs_stack = FALSE,
                                             !.in_hir_stack = TRUE])]

promote_to_lir(st, key) ==
  LET entry == st.map[key]
      s1 == [st EXCEPT
               !.lir_count = st.lir_count + 1,
               !.ub = st.ub \/ ~Contains(st.lirs_stack, key)
                            \/ (entry.in_hir_stack /\ ~Contains(st.hir_stack, key)),
               !.lirs_stack = push_front(erase(st.lirs_stack, key), key),
               !.hir_stack = IF entry.in_hir_stack THEN erase(st.hir_stack, key)
                             ELSE st.hir_stack,
               !.map = map_set(st.map, key,
                               [entry EXCEPT !.is_LIR = TRUE, !.in_hir_stack = FALSE])]
  IN stack_pruning(demote_bottom_lir(s1))
\* mutant: an LIR access leaves the key where it is in S
access_lir_keeps_position(st, key) ==
  [st EXCEPT !.ub = st.ub \/ ~Contains(st.lirs_stack, key)]

access_lir(st, key) ==
  LET was_bottom == st.lirs_stack # <<>> /\ back(st.lirs_stack) = key
      s1 == [st EXCEPT
               !.ub = st.ub \/ ~Contains(st.lirs_stack, key),
               !.lirs_stack = push_front(erase(st.lirs_stack, key), key)]
  IN IF was_bottom THEN stack_pruning(s1) ELSE s1
\* mutant: the refresh of a resident HIR key pushes it on Q without erasing
\* its old position
access_hir_resident_pushes_twice(st, key) ==
  LET entry == st.map[key]
  IN IF entry.in_lirs_stack THEN promote_to_lir(st, key)
     ELSE [st EXCEPT
             !.ub = st.ub \/ ~Contains(st.hir_stack, key),
             !.lirs_stack = push_front(st.lirs_stack, key),
             !.hir_stack = push_front(st.hir_stack, key),
             !.map = map_set(st.map, key, [entry EXCEPT !.in_lirs_stack = TRUE])]

access_hir_resident(st, key) ==
  LET entry == st.map[key]
  IN IF entry.in_lirs_stack THEN promote_to_lir(st, key)
     ELSE [st EXCEPT
             !.ub = st.ub \/ ~Contains(st.hir_stack, key),
             !.lirs_stack = push_front(st.lirs_stack, key),
             !.hir_stack = push_front(erase(st.hir_stack, key), key),
             !.map = map_set(st.map, key, [entry EXCEPT !.in_lirs_stack = TRUE])]

access_hir_non_resident(st, key, value) ==
  LET s0 == evict_hir_resident(st)
      \* the reference `entry` still names key's record: the victim is another key
      entry == [s0.map[key] EXCEPT !.is_resident = TRUE]
      s1 == [s0 EXCEPT
               !.cache = push_front(s0.cache, <<key, value>>),
               !.map = map_set(s0.map, key, entry)]
  IN IF entry.in_lirs_stack THEN promote_to_lir(s1, key)
     ELSE [s1 EXCEPT
             !.lirs_stack = push_front(s1.lirs_stack, key),
             !.hir_stack = push_front(s1.hir_stack, key),
             !.map = map_set(s1.map, key,
                             [entry EXCEPT !.in_lirs_stack = TRUE, !.in_hir_stack = TRUE])]
\* mutant: a new key is admitted as LIR also when the LIR set is full
insert_new_always_lir(st, key, value, lir_capacity) ==
  [st EXCEPT
     !.cache = push_front(st.cache, <<key, value>>),
     !.lirs_stack = push_front(st.lirs_stack, key),
     !.map = map_set(st.map, key, Entry(TRUE, TRUE, TRUE, FALSE)),
     !.lir_count = st.lir_count + 1]
\* mutant: a new HIR key enters Q only, S is left as it is
insert_new_skips_S(st, key, value, lir_capacity) ==
  IF st.lir_count < lir_capacity
    THEN [st EXCEPT
            !.cache = push_front(st.cache, <<key, value>>),
            !.lirs_stack = push_front(st.lirs_stack, key),
            !.map = map_set(st.map, key, Entry(TRUE, TRUE, TRUE, FALSE)),
            !.lir_count = st.lir_count + 1]
    ELSE
      LET s0 == evict_hir_resident(st)
      IN [s0 EXCEPT
            !.cache = push_front(s0.cache, <<key, value>>),
            !.hir_stack = push_front(s0.hir_stack, key),
            !.map = map_set(s0.map, key, Entry(FALSE, TRUE, FALSE, TRUE))]
\* mutant: recency only (LRU).  A new key is admitted as LIR also when the
\* LIR set is full, and the LIR key at the bottom of S is demoted for it
insert_new_demotes_bottom(st, key, value, lir_capacity) ==
  IF st.lir_count < lir_capacity
    THEN [st EXCEPT
            !.cache = push_front(st.cache, <<key, value>>),
            !.lirs_stack = push_front(st.lirs_stack, key),
            !.map = map_set(st.map, key, Entry(TRUE, TRUE, TRUE, FALSE)),
            !.lir_count = st.lir_count + 1]
    ELSE
      LET s0 == evict_hir_resident(st)
      IN stack_pruning(demote_bottom_lir(
           [s0 EXCEPT
              !.cache = push_front(s0.cache, <<key, value>>),
              !.lirs_stack = push_front(s0.lirs_stack, key),
              !.map = map_set(s0.map, key, Entry(TRUE, TRUE, TRUE, FALSE)),
              !.lir_count = s0.lir_count + 1]))
\* mutant: the warm-up ends one key early
insert_new_warm_up_one_short(st, key, value, lir_capacity) ==
  IF st.lir_count + 1 < lir_capacity
    THEN [st EXCEPT
            !.cache = push_front(st.cache, <<key, value>>),
            !.lirs_stack = push_front(st.lirs_stack, key),
            !.map = map_set(st.map, key, Entry(TRUE, TRUE, TRUE, FALSE)),
            !.lir_count = st.lir_count + 1]
    ELSE
      LET s0 == evict_hir_resident(st)
      IN [s0 EXCEPT
            !.cache = push_front(s0.cache, <<key, value>>),
            !.lirs_stack = push_front(s0.lirs_stack, key),
            !.hir_stack = push_front(s0.hir_stack, key),
            !.map = map_set(s0.map, key, Entry(FALSE, TRUE, TRUE, TRUE))]
\* mutant: Q is allowed a second key: a new HIR key evicts only when more
\* than lir_capacity + 1 pairs are stored
insert_new_evicts_when_full(st, key, value, lir_capacity) ==
  IF st.lir_count < lir_capacity
    THEN [st EXCEPT
            !.cache = push_front(st.cache, <<key, value>>),
            !.lirs_stack = push_front(st.lirs_stack, key),
            !.map = map_set(st.map, key, Entry(TRUE, TRUE, TRUE, FALSE)),
            !.lir_count = st.lir_count + 1]
    ELSE
      LET s0 == IF Len(st.cache) > lir_capacity + 1 THEN evict_hir_resident(st) ELSE st
      IN [s0 EXCEPT
            !.cache = push_front(s0.cache, <<key, value>>),
            !.lirs_stack = push_front(s0.lirs_stack, key),
            !.hir_stack = push_front(s0.hir_stack, key),
            !.map = map_set(s0.map, key, Entry(FALSE, TRUE, TRUE, TRUE))]
insert_new(st, key, value, lir_capacity) ==
  IF st.lir_count < lir_capacity
    THEN [st EXCEPT
            !.cache = push_front(st.cache, <<key, value>>),
            !.lirs_stack = push_front(st.lirs_stack, key),
            !.map = map_set(st.map, key, Entry(TRUE, TRUE, TRUE, FALSE)),
            !.lir_count = st.lir_count + 1]
    ELSE
      LET s0 == evict_hir_resident(st)
      IN [s0 EXCEPT
            !.cache = push_front(s0.cache, <<key, value>>),
            !.lirs_stack = push_front(s0.lirs_stack, key),
            !.hir_stack = push_front(s0.hir_stack, key),
            !.map = map_set(s0.map, key, Entry(FALSE, TRUE, TRUE, TRUE))]

\* ------------------------------------------------------- public methods
\* which branch get takes
get_path(st, key) ==
  IF key \notin DOMAIN st.map THEN "miss"
  ELSE IF ~st.map[key].is_resident THEN "ghost_miss"
  ELSE IF st.map[key].is_LIR THEN "lir"
  ELSE IF st.map[key].in_lirs_stack THEN "hir_promote"
  ELSE "hir_refresh"

\* mutant: a get on a ghost counts as a reference and moves it to the top of S
get_refreshes_ghost(st, key) ==
  IF key \notin DOMAIN st.map THEN st
  ELSE IF ~st.map[key].is_resident
    THEN [st EXCEPT !.lirs_stack = push_front(erase(st.lirs_stack, key), key)]
  ELSE IF st.map[key].is_LIR THEN access_lir(st, key)
  ELSE access_hir_resident(st, key)

\* the object after get(key)
get(st, key) ==
  IF key \notin DOMAIN st.map THEN st
  ELSE IF ~st.map[key].is_resident THEN st
  ELSE IF st.map[key].is_LIR THEN access_lir(st, key)
  ELSE access_hir_resident(st, key)

\* the std::optional<V> get(key) returns: entry.data_iter->second after the access
get_result(st, key) ==
  IF key \notin DOMAIN st.map \/ ~st.map[key].is_resident
    THEN [present |-> FALSE, value |-> 0]
    ELSE [present |-> TRUE,
          value |-> IF CacheHas(get(st, key).cache, key)
                      THEN cache_value(get(st, key).cache, key) ELSE 0]

\* which branch put takes
put_path(st, key, lir_capacity) ==
  IF key \notin DOMAIN st.map
    THEN (IF st.lir_count < lir_capacity THEN "new_lir" ELSE "new_hir")
  ELSE IF st.map[key].is_LIR THEN "lir"
  ELSE IF st.map[key].is_resident
    THEN (IF st.map[key].in_lirs_stack THEN "hir_promote" ELSE "hir_refresh")
  ELSE IF st.map[key].in_lirs_stack THEN "ghost_promote"
  ELSE "ghost_not_in_S"

\* mutant: the LIR hit reorders S but does not overwrite the stored value
put_lir_hit_keeps_value(st, key, value, lir_capacity) ==
  IF key \notin DOMAIN st.map THEN insert_new(st, key, value, lir_capacity)
  ELSE IF st.map[key].is_LIR THEN access_lir(st, key)
  ELSE IF st.map[key].is_resident
    THEN access_hir_resident([st EXCEPT !.cache = cache_assign(st.cache, key, value),
                                        !.ub = st.ub \/ ~CacheHas(st.cache, key)], key)
  ELSE access_hir_non_resident(st, key, value)

\* mutant: residency is tested before is_LIR, so an LIR hit is handled as a
\* resident HIR hit
put_tests_resident_first(st, key, value, lir_capacity) ==
  IF key \notin DOMAIN st.map THEN insert_new(st, key, value, lir_capacity)
  ELSE IF st.map[key].is_resident
    THEN access_hir_resident([st EXCEPT !.cache = cache_assign(st.cache, key, value),
                                        !.ub = st.ub \/ ~CacheHas(st.cache, key)], key)
  ELSE access_hir_non_resident(st, key, value)

\* the object after put(key, value)
put(st, key, value, lir_capacity) ==
  IF key \notin DOMAIN st.map THEN insert_new(st, key, value, lir_capacity)
  ELSE IF st.map[key].is_LIR
    THEN access_lir([st EXCEPT !.cache = cache_assign(st.cache, key, value),
                               !.ub = st.ub \/ ~CacheHas(st.cache, key)], key)
  ELSE IF st.map[key].is_resident
    THEN access_hir_resident([st EXCEPT !.cache = cache_assign(st.cache, key, value),
                                        !.ub = st.ub \/ ~CacheHas(st.cache, key)], key)
  ELSE access_hir_non_resident(st, key, value)

size == Len(cache_)

capacity == capacity_

empty == cache_ = <<>>

\* ------------------------------------------------------------ constructor
\* static_cast<std::size_t>(capacity * hir_ratio), hir_ratio = ratio / 100
HirCapacity(cap, ratio) == Max(1, (cap * ratio) \div 100)

\* mutant: the bounds 0 and 1 of hir_ratio are accepted
Accepts_closed_interval(cap, ratio) == cap # 0 /\ ratio >= 0 /\ ratio <= 100

Accepts(cap, ratio) == cap # 0 /\ ratio > 0 /\ ratio < 100

\* LIRSCache(cap, ratio / 100), and nothing called yet
Construct(cap, ratio) ==
    /\ engine = IF Accepts(cap, ratio) THEN "ok" ELSE "invalid_argument"
    /\ capacity_ = IF Accepts(cap, ratio) THEN cap ELSE 0
    /\ hir_capacity_ = IF Accepts(cap, ratio) THEN HirCapacity(cap, ratio) ELSE 0
    /\ lir_capacity_ = IF Accepts(cap, ratio) THEN cap - HirCapacity(cap, ratio) ELSE 0
    /\ lir_count_ = 0
    /\ cache_ = <<>>
    /\ lirs_stack_ = <<>>
    /\ hir_stack_ = <<>>
    /\ map_ = <<>>
    /\ ub = FALSE
    /\ op = [name |-> "LIRSCache", key |-> cap, value |-> ratio]
    /\ ret = [present |-> FALSE, value |-> 0]
    /\ path = "none"
    /\ last_put = [k \in Keys |-> 0]
    /\ inserted = {}

Init ==
  /\ \E cap \in Capacities, ratio \in Ratios : Construct(cap, ratio)
  /\ pc = [phase |-> "client", n |-> 0, missed |-> FALSE]

Install(st) ==
  /\ cache_' = st.cache
  /\ lirs_stack_' = st.lirs_stack
  /\ hir_stack_' = st.hir_stack
  /\ map_' = st.map
  /\ lir_count_' = st.lir_count
  /\ ub' = st.ub

\* get(key): what the call does to the object
GetCall(key) ==
  /\ engine = "ok"
  /\ ~ub
  /\ Install(get(Obj, key))
  /\ UNCHANGED <<engine, capacity_, hir_capacity_, lir_capacity_>>

\* put(key, value): what the call does to the object
PutCall(key, value) ==
  /\ engine = "ok"
  /\ ~ub
  /\ Install(put(Obj, key, value, lir_capacity_))
  /\ UNCHANGED <<engine, capacity_, hir_capacity_, lir_capacity_>>

\* the record of a call: its arguments, its result and the branch it took
GetRecord(key) ==
  /\ op' = [name |-> "get", key |-> key, value |-> 0]
  /\ ret' = get_result(Obj, key)
  /\ path' = get_path(Obj, key)

PutRecord(key, value) ==
  /\ op' = [name |-> "put", key |-> key, value |-> value]
  /\ ret' = [present |-> FALSE, value |-> 0]
  /\ path' = put_path(Obj, key, lir_capacity_)

Get(key) ==
  /\ GetCall(key)
  /\ GetRecord(key)
  /\ UNCHANGED <<last_put, inserted, pc>>

Put(key, value) ==
  /\ PutCall(key, value)
  /\ PutRecord(key, value)
  /\ UNCHANGED <<last_put, inserted, pc>>

Next ==
  \/ \E key \in Keys : Get(key)
  \/ \E key \in Keys, value \in Values : Put(key, value)

Spec == Init /\ [][Next]_vars

\* put(key, value), with the history of puts kept
PutRecorded(key, value) ==
  /\ PutCall(key, value)
  /\ PutRecord(key, value)
  /\ last_put' = [last_put EXCEPT ![key] = value]
  /\ inserted' = inserted \cup {key}
  /\ UNCHANGED pc

NextHist ==
  \/ \E key \in Keys : Get(key)
  \/ \E key \in Keys, value \in Values : PutRecorded(key, value)

\* the same program, with the history variables last_put and inserted kept
SpecHist == Init /\ [][NextHist]_vars

\* get(key) with nothing recorded but that a get was the last call
GetBare(key) ==
  /\ GetCall(key)
  /\ op' = [name |-> "get", key |-> 0, value |-> 0]
  /\ UNCHANGED <<ret, path, last_put, inserted, pc>>

\* put(key, value) with its arguments recorded and nothing else
PutBare(key, value) ==
  /\ PutCall(key, value)
  /\ op' = [name |-> "put", key |-> key, value |-> value]
  /\ UNCHANGED <<ret, path, last_put, inserted, pc>>

NextBare ==
  \/ \E key \in Keys : GetBare(key)
  \/ \E key \in Keys, value \in Values : PutBare(key, value)

\* the same program, recording only the arguments of the last put
SpecBare == Init /\ [][NextBare]_vars

\* ------------------------------------------------------------------ main()
\* main() constructs cache(5, 0.2) and first puts the keys 1..6 in order
\* (Phase 1 and Phase 2); the calls that follow are modelled as any MaxCalls
\* calls on those keys, which covers get(1); get(4) as main() issues them and
\* every other continuation.
MainCapacity == 5

\* hir_ratio 0.2, in hundredths
MainRatio == 20

\* the last key of Phase 2
MainLastKey == 6

MainKeys == 1..MainLastKey

\* the string main() stores for every key in Phase 1 and Phase 2 ("A" .. "F")
MainValue == 1

\* the history variables after put(key, value)
PutHistory(key, value) ==
  /\ last_put' = [k \in DOMAIN last_put \cup {key} |->
                    IF k = key THEN value ELSE last_put[k]]
  /\ inserted' = inserted \cup {key}

InitMain ==
  /\ Construct(MainCapacity, MainRatio)
  /\ pc = [phase |-> "main", n |-> 0, missed |-> FALSE]

\* Phase 1 and Phase 2: cache.put(n + 1, ...)
MainPut ==
  /\ pc.phase = "main" /\ pc.n < MainLastKey
  /\ PutCall(pc.n + 1, MainValue)
  /\ PutRecord(pc.n + 1, MainValue)
  /\ PutHistory(pc.n + 1, MainValue)
  /\ pc' = [pc EXCEPT !.n = pc.n + 1]

\* a later cache.get(key)
MainGetLater(key) ==
  /\ pc.phase = "main" /\ pc.n >= MainLastKey /\ pc.n < MainLastKey + MaxCalls
  /\ GetCall(key)
  /\ GetRecord(key)
  /\ UNCHANGED <<last_put, inserted>>
  /\ pc' = [pc EXCEPT !.n = pc.n + 1]

\* a later cache.put(key, value)
MainPutLater(key, value) ==
  /\ pc.phase = "main" /\ pc.n >= MainLastKey /\ pc.n < MainLastKey + MaxCalls
  /\ PutCall(key, value)
  /\ PutRecord(key, value)
  /\ PutHistory(key, value)
  /\ pc' = [pc EXCEPT !.n = pc.n + 1]

NextMain ==
  \/ MainPut
  \/ \E key \in MainKeys : MainGetLater(key)
  \/ \E key \in MainKeys, value \in Values : MainPutLater(key, value)

SpecMain == InitMain /\ [][NextMain]_vars

\* ------------------------------------------------- main(), Phase 10 (loop)
\* loop_cache(3, 0.34): the keys 1..4 are put in order, then accessed in that
\* order round after round; after a get that misses the key may be put again.
LoopCapacity == 3

\* hir_ratio 0.34, in hundredths
LoopRatio == 34

\* the last key of a round
LoopLastKey == 4

\* the key a round turns to after key n
NextInRound(n) == IF n = LoopLastKey THEN 1 ELSE n + 1

InitLoop ==
  /\ Construct(LoopCapacity, LoopRatio)
  /\ pc = [phase |-> "round1", n |-> 1, missed |-> FALSE]

\* Round 1: loop_cache.put(n, ...)
LoopFill(value) ==
  /\ pc.phase = "round1"
  /\ PutCall(pc.n, value)
  /\ PutRecord(pc.n, value)
  /\ PutHistory(pc.n, value)
  /\ pc' = [phase |-> IF pc.n = LoopLastKey THEN "loop" ELSE "round1",
            n |-> NextInRound(pc.n), missed |-> FALSE]

\* a later round: val = loop_cache.get(n); a miss may be followed by a put
LoopGet ==
  /\ pc.phase = "loop" /\ ~pc.missed
  /\ GetCall(pc.n)
  /\ GetRecord(pc.n)
  /\ UNCHANGED <<last_put, inserted>>
  /\ \/ pc' = [pc EXCEPT !.n = NextInRound(pc.n)]
     \/ /\ ~get_result(Obj, pc.n).present
        /\ pc' = [pc EXCEPT !.missed = TRUE]

\* the put that follows a miss
LoopPut(value) ==
  /\ pc.phase = "loop" /\ pc.missed
  /\ PutCall(pc.n, value)
  /\ PutRecord(pc.n, value)
  /\ PutHistory(pc.n, value)
  /\ pc' = [pc EXCEPT !.n = NextInRound(pc.n), !.missed = FALSE]

NextLoop ==
  \/ \E value \in Values : LoopFill(value)
  \/ LoopGet
  \/ \E value \in Values : LoopPut(value)

SpecLoop == InitLoop /\ [][NextLoop]_vars

\* main() runs on: every enabled call is eventually made
SpecLoopFair == SpecLoop /\ WF_vars(NextLoop)

\* ------------------------------------------------------------ a scan client
\* A client that constructs an engine and then only puts keys it has not put
\* before, one after another: the keys 1, 2, 3, ... in order, as main() does
\* in Phase 1 and Phase 2, up to MaxScan keys.  (The cache only hashes and
\* compares keys for equality, so which distinct keys are put is immaterial.)
InitScan ==
  /\ \E cap \in Capacities, ratio \in Ratios : Construct(cap, ratio)
  /\ pc = [phase |-> "scan", n |-> 0, missed |-> FALSE]

\* cache.put(n + 1, value)
ScanPut(value) ==
  /\ pc.phase = "scan" /\ pc.n < MaxScan
  /\ PutCall(pc.n + 1, value)
  /\ PutRecord(pc.n + 1, value)
  /\ PutHistory(pc.n + 1, value)
  /\ pc' = [pc EXCEPT !.n = pc.n + 1]

NextScan == \E value \in Values : ScanPut(value)

SpecScan == InitScan /\ [][NextScan]_vars

\* ---------------------------------------------------------------- claims
Known(k) == k \in DOMAIN map_

Resident(k) == CacheHas(cache_, k)

Ghost(k) == Known(k) /\ ~map_[k].is_resident

IsLIR(k) == Known(k) /\ map_[k].is_LIR

ResidentKeys == CacheKeys(cache_)

\* C1: an accepted engine never holds more resident entries than its capacity:
\* size() <= capacity() after every public call, for every capacity >= 1.
C1_SizeWithinCapacity == engine = "ok" => size <= capacity

\* C2: get(k) returns present exactly when k is in the value store and absent
\* otherwise; a present result carries the value of the most recent put(k, .),
\* and a get(k) issued right after put(k, v) returns v.
C2_GetReturnsLastPut ==
  /\ op.name = "get" =>
       /\ ret.present <=> Resident(op.key)
       /\ ret.present => last_put[op.key] \in Values /\ ret.value = last_put[op.key]
  /\ op.name = "put" =>
       get_result(Obj, op.key) = [present |-> TRUE, value |-> op.value]
  /\ \A k \in ResidentKeys : cache_value(cache_, k) = last_put[k]

C2_Witness ==
  /\ op.name = "get" /\ ret.present /\ ret.value = 2
  /\ \E k \in Keys : k # op.key /\ last_put[k] = 1 /\ ~Resident(k)

\* C3: get(k) on a key without an entry record, or on a ghost, returns absent
\* and changes nothing: S, Q, the value store, the entry table and lir_count
\* are the same after the call as before.
C3_MissChangesNothing ==
  [][(op'.name = "get" /\ (~Known(op'.key) \/ Ghost(op'.key)))
       => (~ret'.present /\ UNCHANGED state)]_vars

C3_Witness ==
  /\ op.name = "get" /\ path = "ghost_miss" /\ ~ret.present
  /\ Ghost(op.key) /\ Contains(lirs_stack_, op.key)
  /\ lirs_stack_[1] # op.key

\* C4: get(k) never evicts and never changes residency or the LIR count: the
\* resident keys, their values, size() and lir_count are the same after the
\* call as before it, in every accepted configuration.
C4_GetKeepsResidencyAndLirCount ==
  [][op'.name = "get" =>
       /\ CacheKeys(cache_') = CacheKeys(cache_)
       /\ \A k \in CacheKeys(cache_) : cache_value(cache_', k) = cache_value(cache_, k)
       /\ Len(cache_') = Len(cache_)
       /\ lir_count_' = lir_count_]_vars

\* C5: when size() = capacity(), put(k, v) of a key with no entry record
\* evicts exactly one resident key, the one at the bottom of Q before the put,
\* and leaves size() unchanged.
C5_PutNewWhenFullEvictsQBottom ==
  [][(op'.name = "put" /\ ~Known(op'.key) /\ Len(cache_) = capacity_) =>
       /\ hir_stack_ # <<>>
       /\ CacheKeys(cache_) \ CacheKeys(cache_') = {back(hir_stack_)}
       /\ Len(cache_') = Len(cache_)]_vars

\* C6: after every public call every LIR key is resident, and a key that loses
\* residency during a call was, when the call started, a resident HIR key
\* sitting in Q.
C6_LirNeverEvicted ==
  [][/\ \A k \in DOMAIN map_' : map_'[k].is_LIR => CacheHas(cache_', k)
     /\ \A k \in CacheKeys(cache_) \ CacheKeys(cache_') :
          /\ Known(k) /\ ~map_[k].is_LIR /\ map_[k].is_resident
          /\ Contains(hir_stack_, k)]_vars

C6_Witness ==
  /\ op.name = "put" /\ path = "new_hir"
  /\ \E k \in Keys : Ghost(k) /\ Contains(lirs_stack_, k)
  /\ \E k \in Keys : k # op.key /\ IsLIR(k) /\ Resident(k)

\* C7: lir_count <= lir_capacity after every public call, and once
\* lir_capacity distinct keys have been inserted lir_count = lir_capacity.
C7_LirCountBounded ==
  engine = "ok" =>
    /\ lir_count_ <= lir_capacity_
    /\ Cardinality(inserted) >= lir_capacity_ => lir_count_ = lir_capacity_

\* C8: if S is non-empty, the key at its bottom is an LIR key.
C8_BottomOfSIsLir ==
  lirs_stack_ # <<>> => IsLIR(back(lirs_stack_))

\* one of the four combinations of (is_LIR, is_resident, in S, in Q)
Combination(e) ==
  \/ e = Entry(TRUE, TRUE, TRUE, FALSE)
  \/ e = Entry(FALSE, TRUE, TRUE, TRUE)
  \/ e = Entry(FALSE, TRUE, FALSE, TRUE)
  \/ e = Entry(FALSE, FALSE, TRUE, FALSE)

\* C9: every entry record is in one of the four combinations, with the flags
\* agreeing with the lists: every LIR key is in S and not in Q, every key in Q
\* is resident HIR, no non-resident record is absent from S, and put never
\* takes the 'ghost not in S' branch.
C9_FourCombinations ==
  /\ \A k \in DOMAIN map_ :
       /\ Combination(map_[k])
       /\ map_[k].in_lirs_stack <=> Contains(lirs_stack_, k)
       /\ map_[k].in_hir_stack <=> Contains(hir_stack_, k)
  /\ \A i \in 1..Len(hir_stack_) :
       Known(hir_stack_[i]) /\ map_[hir_stack_[i]].is_resident /\ ~map_[hir_stack_[i]].is_LIR
  /\ path # "ghost_not_in_S"

C9_Witness ==
  /\ op.name = "put" /\ path = "ghost_promote"
  /\ map_[op.key] = Entry(TRUE, TRUE, TRUE, FALSE)
  /\ \E k \in Keys : Known(k) /\ map_[k] = Entry(FALSE, TRUE, FALSE, TRUE)

\* what L3 compares: the order of S, the order of Q and every key's record
Structure(o) == <<o.lirs_stack, o.hir_stack, o.map, o.lir_count>>

\* C10 as stated: put(k, v1) followed at once by put(k, v2) leaves the same S
\* order, Q order and classification as the single put(k, v2) from the same
\* starting state, and get(k) then yields v2.  (The step is the first put;
\* the second put and the single put are applied to its two ends.)
C10_TwoPutsLikeOne ==
  [][op'.name = "put" =>
       \A v2 \in Values :
         \A before \in {Obj}, after \in {Obj'} :
         \A two \in {put(after, op'.key, v2, lir_capacity_)},
            one \in {put(before, op'.key, v2, lir_capacity_)} :
           /\ Structure(two) = Structure(one)
           /\ get_result(two, op'.key) = [present |-> TRUE, value |-> v2]]_vars

\* C10 amended: after put(k, v1); put(k, v2) get(k) yields v2, and the S
\* order, Q order and classification equal those of the single put(k, v2)
\* exactly when the first put leaves k LIR; when it leaves k resident HIR the
\* second put is one more access (promotion or refresh) and they differ.
C10_TwoPutsLikeOneWhenLir ==
  [][op'.name = "put" =>
       \A v2 \in Values :
         \A before \in {Obj}, after \in {Obj'} :
         \A two \in {put(after, op'.key, v2, lir_capacity_)},
            one \in {put(before, op'.key, v2, lir_capacity_)} :
           /\ (Structure(two) = Structure(one)) <=> map_'[op'.key].is_LIR
           /\ get_result(two, op'.key) = [present |-> TRUE, value |-> v2]]_vars

C10_Witness ==
  /\ op.name = "put"
  /\ IsLIR(op.key) /\ lirs_stack_[1] = op.key
  /\ cache_value(cache_, op.key) = 1
  /\ \E k \in Keys : Known(k) /\ map_[k] = Entry(FALSE, TRUE, FALSE, TRUE)
  /\ \E k \in Keys : k # op.key /\ IsLIR(k)

\* the LIR keys of S, top first
LirOrder(o) == SelectSeq(o.lirs_stack, LAMBDA k : k \in DOMAIN o.map /\ o.map[k].is_LIR)

\* the keys classified LIR
LirKeys(o) == {k \in DOMAIN o.map : o.map[k].is_LIR}

\* C11: scan protection.  A put of a key with no entry record, issued when
\* lir_count = lir_capacity, leaves the set of LIR keys, their relative order
\* in S and their stored values unchanged, every LIR key still hits on get,
\* and lir_count = lir_capacity still holds, so the same is true of every run
\* of such puts.
C11_ScanKeepsLirSet ==
  [][(op'.name = "put" /\ ~Known(op'.key) /\ lir_count_ = lir_capacity_) =>
       /\ LirKeys(Obj') = LirKeys(Obj)
       /\ LirOrder(Obj') = LirOrder(Obj)
       /\ lir_count_' = lir_capacity_
       /\ \A k \in LirKeys(Obj) :
            /\ CacheHas(cache_, k) /\ CacheHas(cache_', k)
            /\ cache_value(cache_', k) = cache_value(cache_, k)
            /\ get_result(Obj', k) = [present |-> TRUE, value |-> cache_value(cache_, k)]]_vars

C11_Witness ==
  /\ op.name = "put" /\ path = "new_hir" /\ lir_count_ = lir_capacity_
  /\ LirKeys(Obj) # {} /\ \A k \in LirKeys(Obj) : Resident(k)
  /\ \E k \in Keys : Ghost(k)
  /\ hir_stack_ = <<op.key>>

\* C12: construction fails with invalid_argument, and yields no engine, exactly
\* when capacity = 0 or hir_ratio is not strictly between 0 and 1; every other
\* construction yields an engine of that capacity whose S, Q, value store and
\* entry table are empty.
C12_ConstructionRejects ==
  op.name = "LIRSCache" =>
    /\ engine = "invalid_argument" <=> (op.key = 0 \/ op.value <= 0 \/ op.value >= 100)
    /\ engine = "ok" <=> (op.key >= 1 /\ 0 < op.value /\ op.value < 100)
    /\ engine = "ok" =>
         /\ capacity_ = op.key
         /\ lirs_stack_ = <<>> /\ hir_stack_ = <<>> /\ cache_ = <<>>
         /\ DOMAIN map_ = {} /\ lir_count_ = 0

C12_Witness ==
  /\ op.name = "LIRSCache" /\ engine = "invalid_argument"
  /\ op.key >= 1 /\ op.value = 100

\* C13: with capacity 5, lir_capacity 4 and hir_capacity 1, starting empty:
\* after put(1..4) size() = 4, lir_count = 4, Q is empty and S is 4,3,2,1, all
\* LIR; after put(5) S is 5,4,3,2,1 with 5 resident HIR, Q is [5] and size()
\* = 5; after put(6) key 5 is a ghost, Q is [6], the top of S is 6, its bottom
\* is the LIR key 1, size() = 5 and get(5) returns absent.
C13_ScenarioAB ==
  pc.phase = "main" =>
    /\ capacity_ = 5 /\ lir_capacity_ = 4 /\ hir_capacity_ = 1
    /\ pc.n = 4 =>
         /\ size = 4 /\ lir_count_ = 4 /\ hir_stack_ = <<>>
         /\ lirs_stack_ = <<4, 3, 2, 1>>
         /\ \A k \in 1..4 : IsLIR(k)
    /\ pc.n = 5 =>
         /\ lirs_stack_ = <<5, 4, 3, 2, 1>>
         /\ Known(5) /\ ~map_[5].is_LIR /\ map_[5].is_resident
         /\ hir_stack_ = <<5>> /\ size = 5
    /\ pc.n = 6 =>
         /\ Ghost(5) /\ hir_stack_ = <<6>>
         /\ lirs_stack_[1] = 6 /\ back(lirs_stack_) = 1 /\ IsLIR(1)
         /\ size = 5
         /\ ~get_result(Obj, 5).present

C13_Witness ==
  /\ pc.phase = "main" /\ pc.n = 6
  /\ op = [name |-> "put", key |-> 6, value |-> MainValue]
  /\ Ghost(5) /\ Contains(lirs_stack_, 5) /\ ~Resident(5)

\* C14 as stated: after put(1..6) on capacity 5, get(4) returns the value put
\* for 4 and S becomes 4,6,3,2,1 with no pruning; the get(1) that follows
\* returns the value put for 1, S becomes 1,4,6,3,2, key 5 is not in S and the
\* bottom of S is an LIR key.
C14_ScenarioC ==
  [][/\ (pc.phase = "main" /\ pc.n = 6 /\ op'.name = "get" /\ op'.key = 4) =>
          /\ ret' = [present |-> TRUE, value |-> last_put[4]]
          /\ lirs_stack_' = <<4, 6, 3, 2, 1>>
     /\ (pc.phase = "main" /\ pc.n = 7 /\ op.name = "get" /\ op.key = 4
           /\ op'.name = "get" /\ op'.key = 1) =>
          /\ ret' = [present |-> TRUE, value |-> last_put[1]]
          /\ lirs_stack_' = <<1, 4, 6, 3, 2>>
          /\ ~Contains(lirs_stack_', 5)
          /\ map_'[back(lirs_stack_')].is_LIR]_vars

\* C14 amended: the ghost 5 is still in S, under 6.  get(4) returns the value
\* put for 4 and S becomes 4,6,5,3,2,1, nothing pruned; the get(1) that
\* follows returns the value put for 1, S becomes 1,4,6,5,3,2 with nothing
\* pruned (its new bottom 2 is LIR), and key 5 is still a ghost in S.
C14_ScenarioCWithGhost ==
  [][/\ (pc.phase = "main" /\ pc.n = 6 /\ op'.name = "get" /\ op'.key = 4) =>
          /\ ret' = [present |-> TRUE, value |-> last_put[4]]
          /\ lirs_stack_ = <<6, 5, 4, 3, 2, 1>>
          /\ lirs_stack_' = <<4, 6, 5, 3, 2, 1>>
          /\ map_' = map_ /\ hir_stack_' = hir_stack_ /\ cache_' = cache_
     /\ (pc.phase = "main" /\ pc.n = 7 /\ op.name = "get" /\ op.key = 4
           /\ op'.name = "get" /\ op'.key = 1) =>
          /\ ret' = [present |-> TRUE, value |-> last_put[1]]
          /\ lirs_stack_' = <<1, 4, 6, 5, 3, 2>>
          /\ map_' = map_ /\ hir_stack_' = hir_stack_ /\ cache_' = cache_
          /\ map_'[5] = Entry(FALSE, FALSE, TRUE, FALSE)
          /\ map_'[back(lirs_stack_')].is_LIR]_vars

C14_Witness ==
  /\ pc.phase = "main" /\ pc.n = 8
  /\ op = [name |-> "get", key |-> 1, value |-> 0] /\ ret.present
  /\ lirs_stack_ = <<1, 4, 6, 5, 3, 2>>

\* C15: ghost hit.  put(k, v) on a ghost k evicts exactly one resident HIR
\* key, the bottom of Q; makes k resident and LIR with value v at the top of
\* S; demotes exactly one LIR key, the bottom of S, into Q; and leaves
\* lir_count and size() as they were.
C15_GhostHit ==
  [][(op'.name = "put" /\ Ghost(op'.key)) =>
       /\ hir_stack_ # <<>>
       /\ CacheKeys(cache_) \ CacheKeys(cache_') = {back(hir_stack_)}
       /\ ~map_[back(hir_stack_)].is_LIR
       /\ map_'[op'.key].is_LIR /\ map_'[op'.key].is_resident
       /\ CacheHas(cache_', op'.key) /\ cache_value(cache_', op'.key) = op'.value
       /\ lirs_stack_'[1] = op'.key
       /\ LirKeys(Obj) \ LirKeys(Obj') = {back(lirs_stack_)}
       /\ Contains(hir_stack_', back(lirs_stack_))
       /\ lir_count_' = lir_count_
       /\ Len(cache_') = Len(cache_)]_vars

\* C16: loop larger than the cache.  With capacity 3, lir_capacity 2 and
\* hir_capacity 1, after put(1..4), in every later round over the keys 1,2,3,4
\* (get, a miss followed by a put of the key or not) get(1) and get(2) return
\* present, keys 1 and 2 stay LIR and resident, and both keep being hit: the
\* hit count grows without bound.
C16_LoopKeepsLirKeys ==
  /\ [](pc.phase = "loop" =>
          /\ capacity_ = 3 /\ lir_capacity_ = 2 /\ hir_capacity_ = 1
          /\ IsLIR(1) /\ Resident(1) /\ IsLIR(2) /\ Resident(2)
          /\ (op.name = "get" /\ op.key \in {1, 2}) => ret.present)
  /\ []<>(pc.phase = "loop" /\ op.name = "get" /\ op.key = 1 /\ ret.present)
  /\ []<>(pc.phase = "loop" /\ op.name = "get" /\ op.key = 2 /\ ret.present)

C16_Witness ==
  /\ pc.phase = "loop" /\ pc.n = 3
  /\ op = [name |-> "get", key |-> 2, value |-> 0] /\ ret.present
  /\ ~Known(3) /\ Resident(4) /\ lirs_stack_ = <<2, 1>>

\* C17: warm-up.  From an empty engine, while fewer than lir_capacity distinct
\* keys have been put, the put of a new key admits it as LIR at the top of S
\* and evicts nothing; and as long as no more than lir_capacity distinct keys
\* have been put Q is empty, no ghost exists and size() = lir_count = the
\* number of distinct keys put so far.
C17_WarmUp ==
  [][/\ (op'.name = "put" /\ op'.key \notin inserted
           /\ Cardinality(inserted) < lir_capacity_) =>
          /\ ~Known(op'.key)
          /\ map_'[op'.key] = Entry(TRUE, TRUE, TRUE, FALSE)
          /\ lirs_stack_'[1] = op'.key
          /\ CacheKeys(cache_') = CacheKeys(cache_) \cup {op'.key}
     /\ Cardinality(inserted') <= lir_capacity_ =>
          /\ hir_stack_' = <<>>
          /\ \A k \in DOMAIN map_' : map_'[k].is_resident /\ map_'[k].is_LIR
          /\ DOMAIN map_' = inserted'
          /\ Len(cache_') = Cardinality(inserted')
          /\ lir_count_' = Cardinality(inserted')]_vars

C17_Witness ==
  /\ op.name = "put" /\ path = "new_lir"
  /\ Cardinality(inserted) = 2 /\ lir_capacity_ = 2
  /\ lir_count_ = 2 /\ size = 2 /\ lirs_stack_[1] = op.key

\* C18: in every accepted configuration, hir_capacity >= 2 included, whenever
\* a ghost (a non-resident entry record) exists the cache is at capacity:
\* size() = capacity().
C18_GhostsOnlyWhenFull ==
  (engine = "ok" /\ \E k \in DOMAIN map_ : ~map_[k].is_resident) => size = capacity

\* the per-key state of k in object o
KeyState(o, k) ==
  IF k \notin DOMAIN o.map THEN "UNKNOWN"
  ELSE IF o.map[k] = Entry(TRUE, TRUE, TRUE, FALSE) THEN "LIR"
  ELSE IF o.map[k] = Entry(FALSE, TRUE, TRUE, TRUE) THEN "HIR_S_Q"
  ELSE IF o.map[k] = Entry(FALSE, TRUE, FALSE, TRUE) THEN "HIR_Q"
  ELSE IF o.map[k] = Entry(FALSE, FALSE, TRUE, FALSE) THEN "GHOST"
  ELSE "NONE"

\* C19: the key k of a get hit or of a put ends the call in the state the
\* per-key table prescribes: LIR if it was LIR; LIR if it was HIR_S_Q, with
\* exactly one other LIR key demoted to HIR_Q; HIR_S_Q at the top of S and Q
\* if it was HIR_Q, with lir_count unchanged and nothing pruned; LIR if it was
\* a ghost (put); for an unknown key (put) LIR when lir_count < lir_capacity
\* and HIR_S_Q otherwise.
C19_AccessedKeyState ==
  [][(op'.name \in {"get", "put"}) =>
       \A k \in {op'.key} : \A was \in {KeyState(Obj, k)}, is \in {KeyState(Obj', k)} :
         /\ was = "LIR" => is = "LIR"
         /\ was = "HIR_S_Q" =>
              /\ is = "LIR"
              /\ \E d \in LirKeys(Obj) \ {k} :
                   /\ KeyState(Obj', d) = "HIR_Q"
                   /\ LirKeys(Obj') = (LirKeys(Obj) \ {d}) \cup {k}
         /\ was = "HIR_Q" =>
              /\ is = "HIR_S_Q"
              /\ lirs_stack_' = <<k>> \o lirs_stack_
              /\ hir_stack_'[1] = k
              /\ lir_count_' = lir_count_
         /\ (was = "GHOST" /\ op'.name = "put") => is = "LIR"
         /\ (was = "UNKNOWN" /\ op'.name = "put") =>
              is = (IF lir_count_ < lir_capacity_ THEN "LIR" ELSE "HIR_S_Q")]_vars

\* C20 as stated: across a public call a key other than its argument keeps
\* its state or changes by the listed rows only (LIR to HIR_Q by demotion,
\* resident HIR in Q to GHOST if still in S else UNKNOWN by eviction, GHOST to
\* UNKNOWN by pruning) or by a sequence of them.  (A resident HIR key evicted
\* from Q while still in S is read as HIR_S_Q.)
C20_BystanderRows ==
  [][(op'.name \in {"get", "put"}) =>
       \A k \in (DOMAIN map_ \cup DOMAIN map_') \ {op'.key} :
         \/ KeyState(Obj', k) = KeyState(Obj, k)
         \/ <<KeyState(Obj, k), KeyState(Obj', k)>> \in
              {<<"LIR", "HIR_Q">>, <<"LIR", "GHOST">>, <<"LIR", "UNKNOWN">>,
               <<"HIR_S_Q", "GHOST">>, <<"HIR_S_Q", "UNKNOWN">>,
               <<"HIR_Q", "GHOST">>, <<"HIR_Q", "UNKNOWN">>,
               <<"GHOST", "UNKNOWN">>}]_vars

\* C20 amended: a key other than the argument keeps its state or changes by
\* one of: LIR to HIR_Q (demotion); HIR_S_Q to HIR_Q (pruned off S while
\* resident); HIR_S_Q to GHOST (evicted from Q, still in S), or on to UNKNOWN
\* when the same call prunes it; HIR_Q to UNKNOWN (evicted from Q); GHOST to
\* UNKNOWN (pruned).  It never leaves the five states.
C20_BystanderRowsWithPruning ==
  [][(op'.name \in {"get", "put"}) =>
       \A k \in (DOMAIN map_ \cup DOMAIN map_') \ {op'.key} :
         /\ KeyState(Obj', k) # "NONE"
         /\ \/ KeyState(Obj', k) = KeyState(Obj, k)
            \/ <<KeyState(Obj, k), KeyState(Obj', k)>> \in
                 {<<"LIR", "HIR_Q">>,
                  <<"HIR_S_Q", "HIR_Q">>,
                  <<"HIR_S_Q", "GHOST">>, <<"HIR_S_Q", "UNKNOWN">>,
                  <<"HIR_Q", "UNKNOWN">>,
                  <<"GHOST", "UNKNOWN">>}]_vars

C20_Witness ==
  /\ op.name = "get" /\ path = "lir"
  /\ lirs_stack_ = <<op.key, 1>> /\ IsLIR(1) /\ op.key # 1
  /\ hir_stack_ = <<3>> /\ KeyState(Obj, 3) = "HIR_Q"

\* the keys of a key list
ListKeys(s) == {s[i] : i \in 1..Len(s)}

\* C21: representation consistency after every public call.  S and Q hold
\* every key at most once; a key is in S (in Q) exactly when it has an entry
\* record with in_lirs_stack (in_hir_stack) set; the keys with a record are
\* the keys of S and Q together; the value store holds exactly one pair for
\* each resident record and none for another key; and no handle was used
\* after its element was removed.
C21_RepresentationConsistent ==
  /\ Cardinality(ListKeys(lirs_stack_)) = Len(lirs_stack_)
  /\ Cardinality(ListKeys(hir_stack_)) = Len(hir_stack_)
  /\ ListKeys(lirs_stack_) = {k \in DOMAIN map_ : map_[k].in_lirs_stack}
  /\ ListKeys(hir_stack_) = {k \in DOMAIN map_ : map_[k].in_hir_stack}
  /\ DOMAIN map_ = ListKeys(lirs_stack_) \cup ListKeys(hir_stack_)
  /\ Cardinality(CacheKeys(cache_)) = Len(cache_)
  /\ CacheKeys(cache_) = {k \in DOMAIN map_ : map_[k].is_resident}
  /\ ~ub

C21_Witness ==
  /\ op.name = "put" /\ path = "ghost_promote"
  /\ IsLIR(op.key) /\ lirs_stack_[1] = op.key
  /\ hir_stack_ # <<>> /\ ~Contains(lirs_stack_, hir_stack_[1])
  /\ Cardinality(DOMAIN map_) > Len(lirs_stack_)

\* C22: no accepted configuration has zero LIR capacity.  For every accepted
\* capacity and hir_ratio, hir_capacity = max(1, floor(capacity * hir_ratio)),
\* lir_capacity = capacity - hir_capacity, and lir_capacity >= 1.
C22_LirCapacityPositive ==
  engine = "ok" =>
    /\ op.name = "LIRSCache" =>
         hir_capacity_ = Max(1, (op.key * op.value) \div 100)
    /\ lir_capacity_ = capacity_ - hir_capacity_
    /\ lir_capacity_ >= 1

\* C23: whatever hir_capacity is, Q holds at most one key after every public
\* call, so at most one resident HIR record exists; a call that leaves a new
\* key on Q has removed the key that was there.
C23_QHoldsAtMostOne ==
  [][/\ Len(hir_stack_') <= 1
     /\ Cardinality({k \in DOMAIN map_' : map_'[k].is_resident /\ ~map_'[k].is_LIR}) <= 1
     /\ (hir_stack_ # <<>> /\ hir_stack_' # <<>> /\ hir_stack_'[1] # hir_stack_[1]) =>
          ~Contains(hir_stack_', hir_stack_[1])]_vars

C23_Witness ==
  /\ hir_capacity_ >= 2 /\ op.name = "put" /\ path = "new_hir"
  /\ hir_stack_ = <<op.key>>
  /\ \E k \in DOMAIN map_ : ~map_[k].is_resident

\* C24: the entry table is not bounded by the capacity.  From an empty engine,
\* after n consecutive puts of n distinct keys and nothing else, each of the n
\* keys has an entry record and is in S, n - size() of them as ghosts; the
\* length of S and the number of ghosts are not held under 2 * capacity.
C24_ScanKeepsEveryRecord ==
  (engine = "ok" /\ pc.phase = "scan") =>
    /\ Cardinality(inserted) = pc.n
    /\ DOMAIN map_ = inserted
    /\ ListKeys(lirs_stack_) = inserted /\ Len(lirs_stack_) = pc.n
    /\ Cardinality({k \in DOMAIN map_ : ~map_[k].is_resident}) = pc.n - size
    /\ \A k \in DOMAIN map_ : ~map_[k].is_resident => map_[k].in_lirs_stack

C24_Witness ==
  /\ engine = "ok" /\ pc.phase = "scan" /\ pc.n = MaxScan
  /\ capacity_ >= 2 /\ lir_capacity_ >= 1
  /\ Len(lirs_stack_) > 2 * capacity_
  /\ Cardinality({k \in DOMAIN map_ : ~map_[k].is_resident}) > 2 * capacity_
  /\ Cardinality(DOMAIN map_) > 2 * capacity_

====
